---------------------------- MODULE Spec2Model ----------------------------
(***************************************************************************)
(* xcreport: per-file code coverage attributed to squads.                  *)
(*                                                                         *)
(* Five specifications over one set of variables:                          *)
(*   SpecPipeline  the attribution-and-aggregation pipeline                *)
(*                 (model.rs, df.rs): match files to squads, build the     *)
(*                 full report, build the summary.                         *)
(*   SpecRun       invocations of the program writing their reports to a   *)
(*                 shared file system (cli.rs, fs.rs, df.rs).              *)
(*   SpecMain      the top-level driver of main.rs and its stages.         *)
(*   SpecGenerate  a generate invocation from its arguments (cli.rs) to   *)
(*                 the summary.                                            *)
(*   SpecFullReport  the export's targets flattened by get_all_files,      *)
(*                 matched, and sorted into the full report.               *)
(*                                                                         *)
(* Strings whose content matters (paths, fragments, squad names) are       *)
(* sequences of byte values, so that containment and ordering are          *)
(* computed, not assumed.                                                  *)
(***************************************************************************)
EXTENDS Integers, Sequences, FiniteSets, TLC

VARIABLES
    \* ---- pipeline ----
    stage,        \* position of the pipeline
    files,        \* Vec<TargetFile>: the parser's records, then attributed
    squads,       \* Vec<SquadData>: the ownership map, in row order
    full_report,  \* DataFrame produced by process_full_report
    report,       \* DataFrame produced by process_report
    targets,      \* XCodeBuildReport.targets: the export, target by target
    \* ---- invocations and the file system ----
    now,          \* the wall clock, in ticks
    fs,           \* the files that exist: path -> content
    dirs,         \* the run directories that exist under ~/.xcreport
    searchable,   \* whether the directory of the --output-file can be searched
    runs,         \* per invocation: position, --output-file, identifier, error
    \* ---- the driver of main.rs ----
    mpc,          \* position of main
    cli,          \* the parsed command line
    home,         \* what home::home_dir() and creating ~/.xctest give
    result,       \* the Result main holds of the stage that ran last
    exit_status,  \* the process's exit status, None while it runs
    failures,     \* the stages that failed, with their errors, in order
    calls,        \* how often each stage was started
    tools,        \* the external tools run, with how each ended, in order
    squads_file   \* the squads file load_squads_file read, None before

pipeVars == <<stage, files, squads, full_report, report, targets>>
runVars == <<now, fs, dirs, searchable, runs>>
mainVars == <<mpc, cli, home, result, exit_status, failures, calls, tools,
              squads_file>>

vars == <<stage, files, squads, full_report, report, targets,
          now, fs, dirs, searchable, runs,
          mpc, cli, home, result, exit_status, failures, calls, tools,
          squads_file>>

-----------------------------------------------------------------------------
(* Bounds of the model *)

MaxFiles == 3
MaxSquads == 2
\* Invocations of the program, ticks of the clock in a second, and ticks the
\* clock moves on in a behaviour.
NumRuns == 2
TicksPerSecond == 2
MaxTicks == 3
MaxTargets == 2

-----------------------------------------------------------------------------
(* Strings *)

\* "N/A", the literal the reports fill a missing squad with.
NA == <<78, 47, 65>>

\* Option<String>: None is <<>>, Some(s) is <<s>>.
None == <<>>
Some(s) == <<s>>

\* Byte-wise lexicographic order of two strings (Rust str / polars Utf8 order).
RECURSIVE LexLess(_, _)
LexLess(a, b) ==
    IF b = <<>> THEN FALSE
    ELSE IF a = <<>> THEN TRUE
    ELSE IF Head(a) < Head(b) THEN TRUE
    ELSE IF Head(a) > Head(b) THEN FALSE
    ELSE LexLess(Tail(a), Tail(b))

\* str::contains(pattern): pattern occurs in s as a contiguous run of bytes.
Contains(s, pattern) ==
    \E i \in 1..(Len(s) - Len(pattern) + 1) :
        SubSeq(s, i, i + Len(pattern) - 1) = pattern

\* Sequences over S of length at most n.
SeqsUpTo(S, n) == UNION { [1..k -> S] : k \in 0..n }

-----------------------------------------------------------------------------
(* Inputs: the paths, line counts, squad names and fragments the model draws
   the coverage export and the ownership map from. *)

\* "/a/b/x", "/a/y"
FilePaths == { <<47, 97, 47, 98, 47, 120>>, <<47, 97, 47, 121>> }

\* <<coveredLines, executableLines, lineCoverage>> with covered <= executable:
\* a file without executable lines, one whose percentage rounds up (66.666..)
\* and one whose percentage is a rounding boundary (3.125).  lineCoverage is
\* the export's own figure (in percent here); the pipeline never recomputes it.
LineData == { <<0, 0, 0>>, <<2, 3, 67>>, <<1, 32, 3>> }

\* "A", "N/A", "T": one name before "N/A", one after, and "N/A" itself.
SquadNames == { <<65>>, NA, <<84>> }

\* "/a/" (in both paths, a prefix) and "b/" (in the first only, no prefix)
Fragments == { <<47, 97, 47>>, <<98, 47>> }

TargetFiles ==
    { [path |-> p, covered_lines |-> d[1], executable_lines |-> d[2],
       line_coverage |-> d[3], squad_name |-> None] :
         p \in FilePaths, d \in LineData }

SquadDatas ==
    { [squad_name |-> n, file_path |-> f] : n \in SquadNames, f \in Fragments }

-----------------------------------------------------------------------------
(* model.rs: the records and their accessors *)

\* TargetFile::file_path
file_path(file) == file.path

\* TargetFile::set_squad_name
set_squad_name(file, name) == [file EXCEPT !.squad_name = Some(name)]

\* A mutant of file_name: the squad's name is returned.
file_name_swapped(squad) == squad.squad_name

\* SquadData::file_name
file_name(squad) == squad.file_path

\* SquadData::squad_name
squad_name(squad) == squad.squad_name

\* XCodeBuildReport::get_all_files: flat_map over the targets, in target
\* order and then file order.
RECURSIVE get_all_files(_)
get_all_files(self) ==
    IF self = <<>> THEN <<>>
    ELSE Head(self).files \o get_all_files(Tail(self))

-----------------------------------------------------------------------------
(* The matcher: for each file, in order, the first squad whose file_name is
   contained in the file's path names the file's squad; the scan of the
   files ends once as many files have been matched as there are squads. *)

\* Index of the first squad at or after k whose fragment the path contains,
\* 0 when there is none.
RECURSIVE first_match(_, _, _)
first_match(file, sq, k) ==
    IF k > Len(sq) THEN 0
    ELSE IF Contains(file_path(file), file_name(sq[k])) THEN k
    ELSE first_match(file, sq, k + 1)

RECURSIVE match_from(_, _, _, _)
match_from(fl, sq, i, matched) ==
    IF i > Len(fl) \/ matched = Len(sq) THEN fl
    ELSE LET k == first_match(fl[i], sq, 1) IN
         IF k = 0 THEN match_from(fl, sq, i + 1, matched)
         ELSE match_from([fl EXCEPT ![i] = set_squad_name(fl[i], squad_name(sq[k]))],
                         sq, i + 1, matched + 1)

\* A mutant of match_squads: every file is scanned.
match_squads_all(fl, sq) ==
    [i \in 1..Len(fl) |->
        IF first_match(fl[i], sq, 1) = 0 THEN fl[i]
        ELSE set_squad_name(fl[i], squad_name(sq[first_match(fl[i], sq, 1)]))]

match_squads(fl, sq) == match_from(fl, sq, 1, 0)

-----------------------------------------------------------------------------
(* df.rs: the data frames.  A data frame is a sequence of rows; a row is a
   function from column names to values.  A Utf8 cell is an Option<String>
   (None is polars' null). *)

\* Order of two cells under sort_by_exprs(.., descending = false,
\* nulls_last = true, ..): strings ascending, nulls after every string.
cell_less(a, b) ==
    IF a = None THEN FALSE
    ELSE IF b = None THEN TRUE
    ELSE LexLess(a[1], b[1])

\* A mutant of insert_row: the row goes before the rows of equal key.
RECURSIVE insert_row_before_ties(_, _, _)
insert_row_before_ties(row, sorted, by) ==
    IF sorted = <<>> THEN <<row>>
    ELSE IF ~cell_less(Head(sorted)[by], row[by]) THEN <<row>> \o sorted
    ELSE <<Head(sorted)>> \o insert_row_before_ties(row, Tail(sorted), by)

\* One row put into a sorted frame after every row that is not greater.
RECURSIVE insert_row(_, _, _)
insert_row(row, sorted, by) ==
    IF sorted = <<>> THEN <<row>>
    ELSE IF cell_less(row[by], Head(sorted)[by]) THEN <<row>> \o sorted
    ELSE <<Head(sorted)>> \o insert_row(row, Tail(sorted), by)

\* sort_by_exprs(vec![col(by)], vec![false], true, true): ascending, nulls
\* last, maintain_order = true (rows of equal key keep their order).
RECURSIVE sort_by_exprs(_, _)
sort_by_exprs(df, by) ==
    IF df = <<>> THEN <<>>
    ELSE insert_row(df[Len(df)], sort_by_exprs(SubSeq(df, 1, Len(df) - 1), by), by)

\* A mutant of fill_null: the nulls stay.
fill_null_skipping(df, c, value) == df

\* col(c).fill_null(lit(value)) as with_column
fill_null(df, c, value) ==
    [i \in 1..Len(df) |->
        [df[i] EXCEPT ![c] = IF df[i][c] = None THEN Some(value) ELSE df[i][c]]]

\* The data frame main builds from the attributed files (serde field names).
files_frame(fl) ==
    [i \in 1..Len(fl) |->
        ("path" :> fl[i].path) @@
        ("covered_lines" :> fl[i].covered_lines) @@
        ("executable_lines" :> fl[i].executable_lines) @@
        ("line_coverage" :> fl[i].line_coverage) @@
        ("squad_name" :> fl[i].squad_name)]

\* rename of process_full_report
rename_full(df) ==
    [i \in 1..Len(df) |->
        ("Filepath" :> df[i]["path"]) @@
        ("Covered Lines" :> df[i]["covered_lines"]) @@
        ("Executable Lines" :> df[i]["executable_lines"]) @@
        ("Line Coverage" :> df[i]["line_coverage"]) @@
        ("Squad" :> df[i]["squad_name"])]

\* A mutant of process_full_report: nulls filled before the sort.
process_full_report_fill_first(df) ==
    rename_full(sort_by_exprs(fill_null(df, "squad_name", NA), "squad_name"))

\* process_full_report: sort by squad_name, rename, then fill the null
\* squads with "N/A".
process_full_report(df) ==
    fill_null(rename_full(sort_by_exprs(df, "squad_name")), "Squad", NA)

\* A Float64 cell: a rational num/den, or the IEEE value a division by zero
\* gives.  Every quotient the model forms lies, when it is not exactly a
\* rounding boundary, further from one than Float64's error, and the
\* boundaries it does form (n/32) are exact in Float64.
finite(num, den) == [kind |-> "finite", num |-> num, den |-> den]
NaN == [kind |-> "NaN", num |-> 0, den |-> 1]
Inf == [kind |-> "inf", num |-> 0, den |-> 1]

\* cast(Float64).div(..): x / y on unsigned counts; 0/0 is NaN, x/0 is inf.
div_f64(x, y) ==
    IF y = 0 THEN (IF x = 0 THEN NaN ELSE Inf) ELSE finite(x, y)

\* .mul(lit(100.0))
mul_f64(v, k) ==
    IF v.kind = "finite" THEN finite(v.num * k, v.den) ELSE v

\* A mutant of round: the digits after the second decimal are cut off.
round_truncating(v, decimals) ==
    IF v.kind = "finite" /\ decimals = 2
    THEN finite((100 * v.num) \div v.den, 100) ELSE v

\* .round(2): (v * 100).round() / 100, f64::round taking halves away from
\* zero (v is never negative here).
round(v, decimals) ==
    IF v.kind = "finite" /\ decimals = 2
    THEN finite((2 * 100 * v.num + v.den) \div (2 * v.den), 100) ELSE v

\* col(c).sum() over the rows of one group
RECURSIVE sum_group(_, _, _)
sum_group(df, c, key) ==
    IF df = <<>> THEN 0
    ELSE (IF Head(df)["Squad"] = key THEN Head(df)[c] ELSE 0)
         + sum_group(Tail(df), c, key)

\* count() of one group
count_group(df, key) == Cardinality({ i \in 1..Len(df) : df[i]["Squad"] = key })

\* The orders group_by may produce the groups in (it keeps none).
group_orders(df) ==
    LET keys == { df[i]["Squad"] : i \in 1..Len(df) }
    IN  { o \in [1..Cardinality(keys) -> keys] :
            \A i, j \in 1..Cardinality(keys) : i # j => o[i] # o[j] }

\* A mutant of process_report: the group that sorts last is lost.
process_report_dropping(df, order) ==
    LET grouped == [g \in 1..Len(order) |->
            ("Squad" :> order[g]) @@
            ("Count" :> count_group(df, order[g])) @@
            ("Covered Lines" :> sum_group(df, "Covered Lines", order[g])) @@
            ("Executable Lines" :> sum_group(df, "Executable Lines", order[g])) @@
            ("Coverage %" :> round(mul_f64(div_f64(
                sum_group(df, "Covered Lines", order[g]),
                sum_group(df, "Executable Lines", order[g])), 100), 2))]
        sorted == sort_by_exprs(grouped, "Squad")
    IN  IF Len(sorted) > 1 THEN SubSeq(sorted, 1, Len(sorted) - 1) ELSE sorted

\* A mutant of process_report: count() counts the whole frame.
process_report_counting_all(df, order) ==
    LET grouped == [g \in 1..Len(order) |->
            ("Squad" :> order[g]) @@
            ("Count" :> Len(df)) @@
            ("Covered Lines" :> sum_group(df, "Covered Lines", order[g])) @@
            ("Executable Lines" :> sum_group(df, "Executable Lines", order[g])) @@
            ("Coverage %" :> round(mul_f64(div_f64(
                sum_group(df, "Covered Lines", order[g]),
                sum_group(df, "Executable Lines", order[g])), 100), 2))]
    IN  sort_by_exprs(grouped, "Squad")

\* process_report: group_by(["Squad"]) giving the groups in the order
\* `order`, agg, the Coverage % column, sort by Squad, fill_null, and the
\* rename of count to Count.
process_report(df, order) ==
    LET grouped == [g \in 1..Len(order) |->
            ("Squad" :> order[g]) @@
            ("count" :> count_group(df, order[g])) @@
            ("Covered Lines" :> sum_group(df, "Covered Lines", order[g])) @@
            ("Executable Lines" :> sum_group(df, "Executable Lines", order[g]))]
        with_pct == [g \in 1..Len(grouped) |->
            grouped[g] @@
            ("Coverage %" :> round(mul_f64(div_f64(grouped[g]["Covered Lines"],
                                                   grouped[g]["Executable Lines"]),
                                           100), 2))]
        filled == fill_null(sort_by_exprs(with_pct, "Squad"), "Squad", NA)
    IN  [g \in 1..Len(filled) |->
            ("Squad" :> filled[g]["Squad"]) @@
            ("Count" :> filled[g]["count"]) @@
            ("Covered Lines" :> filled[g]["Covered Lines"]) @@
            ("Executable Lines" :> filled[g]["Executable Lines"]) @@
            ("Coverage %" :> filled[g]["Coverage %"])]

-----------------------------------------------------------------------------
(* The pipeline *)

InitPipeline ==
    /\ stage = "parsed"
    /\ files \in SeqsUpTo(TargetFiles, MaxFiles)
    /\ squads \in SeqsUpTo(SquadDatas, MaxSquads)
    /\ full_report = <<>>
    /\ report = <<>>
    /\ targets = <<>>
    /\ now = 0 /\ fs = <<>> /\ dirs = {} /\ searchable = TRUE /\ runs = <<>>
    /\ mpc = "idle" /\ cli = <<>> /\ home = "ok" /\ result = <<>>
    /\ exit_status = None /\ failures = <<>> /\ calls = <<>> /\ tools = <<>>
    /\ squads_file = None

\* The files are matched to the squads.
MatchSquads ==
    /\ stage = "parsed"
    /\ files' = match_squads(files, squads)
    /\ stage' = "matched"
    /\ UNCHANGED <<squads, full_report, report, targets>>
    /\ UNCHANGED <<runVars, mainVars>>

\* process_full_report on the frame of the matched files.
ProcessFullReport ==
    /\ stage = "matched"
    /\ full_report' = process_full_report(files_frame(files))
    /\ stage' = "full_report"
    /\ UNCHANGED <<files, squads, report, targets>>
    /\ UNCHANGED <<runVars, mainVars>>

\* process_report on the full report.
ProcessReport ==
    /\ stage = "full_report"
    /\ \E order \in group_orders(full_report) :
           report' = process_report(full_report, order)
    /\ stage' = "report"
    /\ UNCHANGED <<files, squads, full_report, targets>>
    /\ UNCHANGED <<runVars, mainVars>>

NextPipeline == MatchSquads \/ ProcessFullReport \/ ProcessReport

SpecPipeline == InitPipeline /\ [][NextPipeline]_vars

-----------------------------------------------------------------------------
(* Properties of the pipeline (SpecPipeline) *)

Matched == stage \in {"matched", "full_report", "report"}
HasFullReport == stage \in {"full_report", "report"}

\* The squads whose fragment is a substring of file i's path.
Matching(i) ==
    { k \in 1..Len(squads) : Contains(files[i].path, squads[k].file_path) }

Least(S) == CHOOSE k \in S : \A m \in S : k <= m

\* What first-match-wins alone gives file i.
FirstMatchOwner(i) ==
    IF Matching(i) = {} THEN None ELSE Some(squads[Least(Matching(i))].squad_name)

\* The files before i that were given an owner.
OwnedBefore(i) == Cardinality({ j \in 1..(i - 1) : files[j].squad_name # None })

\* C1 as stated: every file's owner is the team of the first squad entry, in
\* row order, whose fragment is a substring of its path, and is unset only
\* when no entry's fragment is.
C1_FirstMatchEveryFile ==
    Matched => \A i \in 1..Len(files) : files[i].squad_name = FirstMatchOwner(i)

\* C1 amended: every file reached before as many files have an owner as there
\* are squad entries gets the team of the first entry whose fragment is a
\* substring of its path, and no owner only when no fragment is; and for a
\* single file matched by two entries of different teams, the owner is the
\* team of whichever entry is listed first.
C1_FirstMatchWins ==
    Matched =>
        /\ \A i \in 1..Len(files) :
               OwnedBefore(i) < Len(squads) => files[i].squad_name = FirstMatchOwner(i)
        /\ \A i \in 1..Len(files) :
               (Len(squads) = 2 /\ Matching(i) = {1, 2}) =>
                   LET f == [files[i] EXCEPT !.squad_name = None]
                   IN  /\ match_squads(<<f>>, squads)[1].squad_name
                            = Some(squads[1].squad_name)
                       /\ match_squads(<<f>>, <<squads[2], squads[1]>>)[1].squad_name
                            = Some(squads[2].squad_name)

\* A file, reached in time, that two entries of different teams match and
\* that has the team of the first.
C1_Witness ==
    /\ stage = "matched"
    /\ \E i \in 1..Len(files) :
           /\ Len(squads) = 2
           /\ Matching(i) = {1, 2}
           /\ squads[1].squad_name # squads[2].squad_name
           /\ OwnedBefore(i) < Len(squads)
           /\ files[i].squad_name = Some(squads[1].squad_name)

\* C2: once as many files have an owner as there are squad entries, every
\* later file is left without an owner, whether or not a fragment is a
\* substring of its path.
C2_ShortCircuit ==
    Matched =>
        \A i \in 1..Len(files) :
            OwnedBefore(i) >= Len(squads) => files[i].squad_name = None

\* A file after that point that an entry matches and that has no owner.
C2_Witness ==
    /\ stage = "matched"
    /\ Len(squads) > 0
    /\ \E i \in 1..Len(files) :
           /\ OwnedBefore(i) = Len(squads)
           /\ Matching(i) # {}
           /\ files[i].squad_name = None

\* The Squad of full-report row i, as a string.
SquadOf(df, i) == df[i]["Squad"][1]

\* The files that were left without an owner.
Unowned == { j \in 1..Len(files) : files[j].squad_name = None }

RECURSIVE SumOver(_, _, _)
SumOver(df, c, S) ==
    IF S = {} THEN 0
    ELSE LET i == CHOOSE x \in S : TRUE
         IN  df[i][c] + SumOver(df, c, S \ {i})

RowsOf(key) == { i \in 1..Len(full_report) : full_report[i]["Squad"] = key }

\* C4: the summary has one row for each Squad value of the full report and
\* no other row, in strictly ascending order of Squad; a row's Count is the
\* number of full-report rows of its Squad, its Covered Lines and Executable
\* Lines the sums over them.
C4_OneRowPerSquad ==
    stage = "report" =>
        /\ \A i \in 1..Len(full_report) :
               \E g \in 1..Len(report) : report[g]["Squad"] = full_report[i]["Squad"]
        /\ \A g \in 1..Len(report) : RowsOf(report[g]["Squad"]) # {}
        /\ \A g, h \in 1..Len(report) :
               g < h => LexLess(SquadOf(report, g), SquadOf(report, h))
        /\ \A g \in 1..Len(report) :
               LET rows == RowsOf(report[g]["Squad"])
               IN  /\ report[g]["Count"] = Cardinality(rows)
                   /\ report[g]["Covered Lines"] = SumOver(full_report, "Covered Lines", rows)
                   /\ report[g]["Executable Lines"]
                        = SumOver(full_report, "Executable Lines", rows)

\* A summary of several squads, "N/A" among them with more than one file.
C4_Witness ==
    /\ stage = "report"
    /\ Len(report) >= 2
    /\ \E g \in 1..Len(report) :
           /\ report[g]["Squad"] = Some(NA)
           /\ report[g]["Count"] >= 2
           /\ report[g]["Count"] < Len(full_report)

\* C5: the Covered Lines of the summary rows add up to the Covered Lines of
\* the full-report rows, and so do the Executable Lines.
C5_Conservation ==
    stage = "report" =>
        /\ SumOver(report, "Covered Lines", 1..Len(report))
             = SumOver(full_report, "Covered Lines", 1..Len(full_report))
        /\ SumOver(report, "Executable Lines", 1..Len(report))
             = SumOver(full_report, "Executable Lines", 1..Len(full_report))

\* A summary of several squads over files that have covered lines.
C5_Witness ==
    /\ stage = "report"
    /\ Len(report) >= 2
    /\ \A g \in 1..Len(report) : report[g]["Covered Lines"] > 0

-----------------------------------------------------------------------------
(* Invocations of the program and the file system they share.

   A path is [home, dir, name].  home says whether it lies under the
   program's home directory (~/.xcreport, ~/.xctest), and dir is then the
   run directory's identifier, or <<>> for the home directory itself; a
   path given on the command line has home = FALSE.  A file's content is
   who wrote it and what.  A file name is the sequence of its parts between
   dots. *)

Runs == 1..NumRuns

OutputPaths == { [home |-> FALSE, dir |-> <<>>, name |-> <<"out", "csv">>] }

\* Content written by a process that is no invocation of this program.
Foreign == [writer |-> 0, what |-> "other"]

Ok(v) == [ok |-> TRUE, value |-> v, err |-> ""]
Err(e) == [ok |-> FALSE, value |-> <<>>, err |-> e]

\* Path::try_exists: Err when the path's directory cannot be searched,
\* otherwise Ok(whether the file is there).
try_exists(path) ==
    IF ~path.home /\ ~searchable THEN Err("io")
    ELSE Ok(path \in DOMAIN fs)

\* Result<bool, _>::unwrap_or_default
unwrap_or_default(res) == IF res.ok THEN res.value ELSE FALSE

\* A mutant of parse_output_file: every path is accepted.
parse_output_file_accepting(arg) == Ok(arg)

\* cli.rs parse_output_file
parse_output_file(arg) ==
    LET path_exists == unwrap_or_default(try_exists(arg))
    IN  IF path_exists THEN Err("FilePath::AlreadyExists") ELSE Ok(arg)

\* chrono Local::now().format("%F-%H-%M-%S"): the date (as a day number),
\* the hour, the minute and the second of the clock; what is below a second
\* is not part of it.
format_now(t) ==
    LET secs == t \div TicksPerSecond
    IN  << secs \div 86400, (secs \div 3600) % 24, (secs \div 60) % 60, secs % 60 >>

\* fs.rs full_report_path, report_path
full_report_path(identifier) ==
    [home |-> TRUE, dir |-> identifier, name |-> <<"full_report", "csv">>]

report_path(identifier) ==
    [home |-> TRUE, dir |-> identifier, name |-> <<"report", "csv">>]

\* std::fs::File::create: fails when the directory is missing or cannot be
\* searched; otherwise the file is created, or truncated when it exists.
file_create(path) ==
    IF path.home THEN path.dir \in dirs ELSE searchable

\* df.rs save_dataframe_csv: File::create and the CSV written into it.
save_dataframe_csv(content, path) ==
    IF file_create(path)
    THEN [res |-> Ok(path), fs |-> (path :> content) @@ fs]
    ELSE [res |-> Err("FileIO"), fs |-> fs]

NewRun == [pc |-> "start", output |-> None, identifier |-> None, err |-> ""]

InitRun ==
    /\ now = 59 * TicksPerSecond
    /\ fs \in { <<>> } \cup { (p :> Foreign) : p \in OutputPaths }
    /\ dirs = {}
    /\ searchable \in BOOLEAN
    /\ runs = [r \in Runs |-> NewRun]
    /\ stage = "idle" /\ files = <<>> /\ squads = <<>>
    /\ full_report = <<>> /\ report = <<>> /\ targets = <<>>
    /\ mpc = "idle" /\ cli = <<>> /\ home = "ok" /\ result = <<>>
    /\ exit_status = None /\ failures = <<>> /\ calls = <<>> /\ tools = <<>>
    /\ squads_file = None

\* Cli::parse: --output-file, when given, goes through parse_output_file.
ParseArgs(r) ==
    /\ runs[r].pc = "start"
    /\ \E out \in {None} \cup { Some(p) : p \in OutputPaths } :
           LET res == IF out = None THEN Ok(<<>>) ELSE parse_output_file(out[1])
           IN  runs' = [runs EXCEPT ![r] =
                   IF res.ok THEN [@ EXCEPT !.pc = "parsed", !.output = out]
                   ELSE [@ EXCEPT !.pc = "failed", !.output = out, !.err = res.err]]
    /\ UNCHANGED <<now, fs, dirs, searchable>>
    /\ UNCHANGED <<pipeVars, mainVars>>

\* fs.rs get_identifier: the identifier is the formatted clock, and
\* get_workdir creates its directory unless it is there already.
GetIdentifier(r) ==
    /\ runs[r].pc = "parsed"
    /\ LET identifier == format_now(now)
       IN  /\ dirs' = dirs \cup {identifier}
           /\ runs' = [runs EXCEPT ![r].pc = "identified",
                                   ![r].identifier = Some(identifier)]
    /\ UNCHANGED <<now, fs, searchable>>
    /\ UNCHANGED <<pipeVars, mainVars>>

\* df.rs save_full_report
SaveFullReport(r) ==
    /\ runs[r].pc = "identified"
    /\ LET saved == save_dataframe_csv([writer |-> r, what |-> "full_report"],
                                      full_report_path(runs[r].identifier[1]))
       IN  /\ fs' = saved.fs
           /\ runs' = [runs EXCEPT ![r] =
                   IF saved.res.ok THEN [@ EXCEPT !.pc = "full_saved"]
                   ELSE [@ EXCEPT !.pc = "failed", !.err = saved.res.err]]
    /\ UNCHANGED <<now, dirs, searchable>>
    /\ UNCHANGED <<pipeVars, mainVars>>

\* df.rs save_report_to_output with an --output-file, save_report_to_default
\* without.
SaveReport(r) ==
    /\ runs[r].pc = "full_saved"
    /\ LET path == IF runs[r].output = None
                   THEN report_path(runs[r].identifier[1])
                   ELSE runs[r].output[1]
           saved == save_dataframe_csv([writer |-> r, what |-> "report"], path)
       IN  /\ fs' = saved.fs
           /\ runs' = [runs EXCEPT ![r] =
                   IF saved.res.ok THEN [@ EXCEPT !.pc = "done"]
                   ELSE [@ EXCEPT !.pc = "failed", !.err = saved.res.err]]
    /\ UNCHANGED <<now, dirs, searchable>>
    /\ UNCHANGED <<pipeVars, mainVars>>

\* Another process creates the file an --output-file names.
OtherProcessCreates ==
    /\ \E p \in OutputPaths :
           /\ p \notin DOMAIN fs
           /\ fs' = (p :> Foreign) @@ fs
    /\ UNCHANGED <<now, dirs, searchable, runs>>
    /\ UNCHANGED <<pipeVars, mainVars>>

\* The clock moves on.
Tick ==
    /\ now < 59 * TicksPerSecond + MaxTicks
    /\ now' = now + 1
    /\ UNCHANGED <<fs, dirs, searchable, runs>>
    /\ UNCHANGED <<pipeVars, mainVars>>

NextRun ==
    \/ \E r \in Runs : ParseArgs(r)
    \/ \E r \in Runs : GetIdentifier(r)
    \/ \E r \in Runs : SaveFullReport(r)
    \/ \E r \in Runs : SaveReport(r)
    \/ OtherProcessCreates
    \/ Tick

SpecRun == InitRun /\ [][NextRun]_vars

-----------------------------------------------------------------------------
(* Properties of the invocations (SpecRun) *)

\* Run r leaves Cli::parse in this step.
Parses(r) == runs[r].pc = "start" /\ runs'[r].pc # "start"

\* What run r has written is nowhere in the file system.
WroteNothing(r) == \A p \in DOMAIN fs : fs[p].writer # r

\* C7 as stated: an --output-file that exists fails the run with FilePath
\* AlreadyExists before anything is written, the file unchanged; one that
\* does not exist is accepted.
C7_ExistingOutputRejected ==
    [][\A r \in Runs :
          (Parses(r) /\ runs'[r].output # None) =>
              /\ fs' = fs
              /\ IF runs'[r].output[1] \in DOMAIN fs
                 THEN runs'[r].pc = "failed" /\ runs'[r].err = "FilePath::AlreadyExists"
                 ELSE runs'[r].pc = "parsed"]_vars

\* C7 amended: an --output-file that the existence check finds fails the run
\* with FilePath AlreadyExists, before the run has an identifier or has
\* written anything, and the check changes no file; an --output-file that
\* the check does not find, or whose existence it cannot determine, is
\* accepted.
C7_FoundOutputRejected ==
    /\ [](\A r \in Runs :
            runs[r].err = "FilePath::AlreadyExists" =>
                /\ runs[r].pc = "failed"
                /\ runs[r].identifier = None
                /\ WroteNothing(r))
    /\ [][\A r \in Runs :
            (Parses(r) /\ runs'[r].output # None) =>
                /\ fs' = fs
                /\ IF searchable /\ runs'[r].output[1] \in DOMAIN fs
                   THEN runs'[r].pc = "failed"
                        /\ runs'[r].err = "FilePath::AlreadyExists"
                   ELSE runs'[r].pc = "parsed" /\ runs'[r].err = ""]_vars

\* A run refused for its --output-file, the file there still the other
\* process's, while another run was accepted and has finished.
C7_Witness ==
    \E r, q \in Runs :
        /\ runs[r].pc = "failed"
        /\ runs[r].err = "FilePath::AlreadyExists"
        /\ runs[r].output # None
        /\ runs[r].output[1] \in DOMAIN fs
        /\ fs[runs[r].output[1]] = Foreign
        /\ runs[q].pc = "done"

\* C8: a write of a report never replaces a file that is at the
\* --output-file path when the write happens.
C8_OutputNeverReplaced ==
    [][\A p \in OutputPaths :
          p \in DOMAIN fs => (p \in DOMAIN fs' /\ fs'[p] = fs[p])]_vars

\* C9: two invocations never have the same identifier.
C9_IdentifiersDiffer ==
    \A r, q \in Runs :
        (r # q /\ runs[r].identifier # None /\ runs[q].identifier # None)
            => runs[r].identifier # runs[q].identifier

-----------------------------------------------------------------------------
(* main.rs with mods/errors.rs: the driver.  It runs the tests or takes a
   result bundle, has xccov export the coverage, reads the squads file, and
   returns. *)

\* An XCTestError: the variant, and the payload of the variants that carry one.
Error(kind) == [kind |-> kind, extension |-> "", desc |-> <<>>, name |-> ""]
InvalidType(ext) == [Error("FilePathError::InvalidType") EXCEPT !.extension = ext]
NonZeroExit(desc) == [Error("CommandExecutionError::NonZeroExit") EXCEPT !.desc = desc]
ColumnMissing(name) == [Error("CSVParseError::ColumnMissing") EXCEPT !.name = name]

\* i32::to_string of an exit code (never negative here)
RECURSIVE to_string(_)
to_string(n) ==
    IF n < 10 THEN <<48 + n>> ELSE to_string(n \div 10) \o <<48 + (n % 10)>>

\* Path::extension: what follows the last dot of the file name, if the name
\* has a dot that is not its first character.
extension(path) ==
    IF Len(path.name) >= 2 /\ ~(Len(path.name) = 2 /\ path.name[1] = "")
    THEN Some(path.name[Len(path.name)])
    ELSE None

\* The OsStrings that are not valid Unicode; "<FF>" stands for an extension
\* with such bytes.
NotUnicode == {"<FF>"}

\* OsString::into_string: the String, or the OsString back when it is not
\* valid Unicode.
into_string(os) ==
    IF os \in NotUnicode THEN [ok |-> FALSE, value |-> "", err |-> os]
    ELSE [ok |-> TRUE, value |-> os, err |-> ""]

\* A mutant of parse_file: the extension is not looked at.
parse_file_any_extension(arg, ext) ==
    IF ~unwrap_or_default(try_exists(arg)) THEN Err(Error("FilePathError::NotFound"))
    ELSE Ok(arg)

\* parse_file
parse_file(arg, ext) ==
    LET path_exists == unwrap_or_default(try_exists(arg))
    IN  IF ~path_exists THEN Err(Error("FilePathError::NotFound"))
        ELSE IF extension(arg) # Some(ext)
             THEN LET os == IF extension(arg) = None THEN "N/A" ELSE extension(arg)[1]
                      str == into_string(os)
                  IN  Err(InvalidType(IF str.ok THEN str.value ELSE "N/A"))
             ELSE Ok(arg)

parse_xcresult_file(arg) == parse_file(arg, "xcresult")

parse_input_file(arg) == parse_file(arg, "csv")

\* The paths given on the command line.
CsvArgs == { [home |-> FALSE, dir |-> <<>>, name |-> <<"squads", "csv">>],
             [home |-> FALSE, dir |-> <<>>, name |-> <<"squads">>] }

XcresultArgs == { [home |-> FALSE, dir |-> <<>>, name |-> <<"result", "xcresult">>],
                  [home |-> FALSE, dir |-> <<>>, name |-> <<"result", "txt">>],
                  [home |-> FALSE, dir |-> <<>>, name |-> <<"result", "<FF>">>] }

\* Commands, with the arguments of each.
CommandLines ==
    { [command |-> "Run", input_file |-> Some(i), xcresult_file |-> None, clean |-> c] :
        i \in CsvArgs, c \in BOOLEAN }
    \cup
    { [command |-> "Generate", input_file |-> Some(i), xcresult_file |-> Some(x),
       clean |-> FALSE] : i \in CsvArgs, x \in XcresultArgs }
    \cup
    { [command |-> "ShowReport", input_file |-> None, xcresult_file |-> None,
       clean |-> FALSE] }

\* Cli::parse: the value parsers of the command's arguments.
parse_cli(c) ==
    IF c.command = "ShowReport" THEN Ok(<<>>)
    ELSE LET input == parse_input_file(c.input_file[1])
         IN  IF ~input.ok THEN input
             ELSE IF c.command = "Generate"
                  THEN parse_xcresult_file(c.xcresult_file[1])
                  ELSE input

\* home_path: ~/.xctest, or DirPathError::NotFound without a home directory.
home_path ==
    IF home = "none" THEN Err(Error("DirPathError::NotFound"))
    ELSE Ok([home |-> TRUE, dir |-> <<>>, name |-> <<>>])

\* setup_home_dir: home_path()? and create_dir_all
setup_home_dir ==
    IF ~home_path.ok THEN home_path
    ELSE IF home = "readonly" THEN Err(Error("FileIOError"))
    ELSE Ok(<<>>)

\* xcresult_path
xcresult_path ==
    IF ~home_path.ok THEN home_path
    ELSE Ok([home |-> TRUE, dir |-> <<>>, name |-> <<"result", "xcresult">>])

\* How a tool ends: it could not be started, or it ran and left an exit
\* code, or it ran and was ended by a signal (no code).
ExitCodes == {0, 1, 65}

ToolOutcomes ==
    { [spawned |-> FALSE, code |-> None] }
    \cup { [spawned |-> TRUE, code |-> c] : c \in {None} \cup { Some(n) : n \in ExitCodes } }

\* ExitStatus::success
success(outcome) == outcome.code = Some(0)

\* The header rows a squads file may have.
Headers == { <<"ID", "Squad", "Filename">>, <<"Squad", "Filepath">>,
             <<"ID", "Filename">>, <<"Filename", "Squad">> }

SquadsFiles ==
    { [opens |-> o, parses |-> q, fields |-> h] :
        o \in BOOLEAN, q \in BOOLEAN, h \in Headers }

expected_field_names == <<"ID", "Squad", "Filename">>

\* load_squads_file: the CSV is read, then the header is checked for the
\* expected fields, in order.
load_squads_file(csv) ==
    IF ~csv.opens \/ ~csv.parses THEN Err(Error("Polars"))
    ELSE LET missing == { k \in 1..Len(expected_field_names) :
                            \A f \in 1..Len(csv.fields) :
                                csv.fields[f] # expected_field_names[k] }
         IN  IF missing = {} THEN Ok(csv.fields)
             ELSE Err(ColumnMissing(expected_field_names[Least(missing)]))

\* parse_xcresult_to_dataframe: the bundle must exist, xcrun must start, its
\* output is written to raw_report.json, which is opened and read as JSON.
parse_xcresult_to_dataframe(xcresult_file, xcrun_spawned, written, opened, json_ok) ==
    IF ~home_path.ok THEN home_path
    ELSE IF ~unwrap_or_default(try_exists(xcresult_file))
         THEN Err(Error("FilePathError::NotFound"))
    ELSE IF ~xcrun_spawned THEN Err(Error("CommandExecutionError::XCRun"))
    ELSE IF ~written THEN Err(Error("FileIOError"))
    ELSE IF ~opened THEN Err(Error("FileIOError"))
    ELSE IF ~json_ok THEN Err(Error("Polars"))
    ELSE Ok(<<>>)

Stages == {"run_tests", "process_xcresult", "parse_xcresult_to_dataframe",
           "load_squads_file"}

Failure(at, res) == [stage |-> at, err |-> res.err]

InitMain ==
    /\ mpc = "cli"
    /\ cli = <<>>
    /\ home \in {"ok", "none", "readonly"}
    /\ result = Ok(<<>>)
    /\ exit_status = None
    /\ failures = <<>>
    /\ calls = [st \in Stages |-> 0]
    /\ tools = <<>>
    /\ squads_file = None
    /\ fs \in { [p \in S |-> Foreign] : S \in SUBSET (CsvArgs \cup XcresultArgs) }
    /\ searchable \in BOOLEAN
    /\ dirs = {}
    /\ now = 0 /\ runs = <<>>
    /\ stage = "idle" /\ files = <<>> /\ squads = <<>>
    /\ full_report = <<>> /\ report = <<>> /\ targets = <<>>

\* Cli::parse(): a value parser's error ends the process with status 2.
CliParse ==
    /\ mpc = "cli"
    /\ \E c \in CommandLines :
           LET res == parse_cli(c)
           IN  /\ cli' = c
               /\ IF res.ok
                  THEN /\ mpc' = "setup_home_dir"
                       /\ UNCHANGED <<exit_status, failures>>
                  ELSE /\ mpc' = "exited"
                       /\ exit_status' = Some(2)
                       /\ failures' = Append(failures, Failure("cli", res))
    /\ UNCHANGED <<home, result, calls, tools, squads_file>>
    /\ UNCHANGED <<pipeVars, runVars>>

\* setup_home_dir().unwrap(): an error is a panic, status 101.
SetupHomeDir ==
    /\ mpc = "setup_home_dir"
    /\ IF setup_home_dir.ok
       THEN /\ mpc' = "dispatch"
            /\ dirs' = dirs \cup {<<>>}
            /\ UNCHANGED <<exit_status, failures>>
       ELSE /\ mpc' = "exited"
            /\ exit_status' = Some(101)
            /\ failures' = Append(failures, Failure("setup_home_dir", setup_home_dir))
            /\ UNCHANGED dirs
    /\ UNCHANGED <<cli, home, result, calls, tools, squads_file>>
    /\ UNCHANGED <<pipeVars, now, fs, searchable, runs>>

\* match &cli.command
Dispatch ==
    /\ mpc = "dispatch"
    /\ \/ /\ cli.command = "Run"
          /\ mpc' = IF cli.clean THEN "tuist" ELSE "xcodebuild"
          /\ calls' = [calls EXCEPT !["run_tests"] = @ + 1]
       \/ /\ cli.command = "Generate"
          /\ mpc' = "parse_xcresult_to_dataframe"
          /\ calls' = [calls EXCEPT !["process_xcresult"] = @ + 1]
       \/ /\ cli.command = "ShowReport"
          /\ mpc' = "return"
          /\ UNCHANGED calls
    /\ UNCHANGED <<cli, home, result, exit_status, failures, tools, squads_file>>
    /\ UNCHANGED <<pipeVars, runVars>>

\* run_tests leaves with `res`.
RunTestsLeaves(res) ==
    /\ result' = res
    /\ mpc' = "run_tests_returned"
    /\ failures' = IF res.ok THEN failures ELSE Append(failures, Failure("run_tests", res))

\* run_tests, clean: tuist generate; only a failure to start it is an error.
RunTuist ==
    /\ mpc = "tuist"
    /\ \E o \in ToolOutcomes :
           /\ tools' = Append(tools, [tool |-> "tuist", outcome |-> o])
           /\ IF o.spawned
              THEN mpc' = "pod" /\ UNCHANGED <<result, failures>>
              ELSE RunTestsLeaves(Err(Error("CommandExecutionError::Tuist")))
    /\ UNCHANGED <<cli, home, exit_status, calls, squads_file>>
    /\ UNCHANGED <<pipeVars, runVars>>

\* run_tests, clean: pod install; only a failure to start it is an error.
RunPod ==
    /\ mpc = "pod"
    /\ \E o \in ToolOutcomes :
           /\ tools' = Append(tools, [tool |-> "pod", outcome |-> o])
           /\ IF o.spawned
              THEN mpc' = "xcodebuild" /\ UNCHANGED <<result, failures>>
              ELSE RunTestsLeaves(Err(Error("CommandExecutionError::Cocoapods")))
    /\ UNCHANGED <<cli, home, exit_status, calls, squads_file>>
    /\ UNCHANGED <<pipeVars, runVars>>

\* run_tests: xcodebuild is spawned with its stdout piped and never waited
\* for; it leaves the result bundle at xcresult_path, or does not.
RunXcodebuild ==
    /\ mpc = "xcodebuild"
    /\ \E o \in ToolOutcomes :
           /\ tools' = Append(tools, [tool |-> "xcodebuild", outcome |-> o])
           /\ IF ~home_path.ok
              THEN RunTestsLeaves(home_path) /\ UNCHANGED fs
              ELSE IF o.spawned
              THEN /\ mpc' = "xcpretty"
                   /\ UNCHANGED <<result, failures>>
                   /\ \/ UNCHANGED fs
                      \/ fs' = (xcresult_path.value :> [writer |-> 1, what |-> "xcresult"]) @@ fs
              ELSE /\ RunTestsLeaves(Err(Error("CommandExecutionError::XCodeBuild")))
                   /\ UNCHANGED fs
    /\ UNCHANGED <<cli, home, exit_status, calls, squads_file>>
    /\ UNCHANGED <<pipeVars, now, dirs, searchable, runs>>

\* run_tests: xcpretty; its exit status is the one that is looked at.
RunXcpretty ==
    /\ mpc = "xcpretty"
    /\ \E o \in ToolOutcomes :
           /\ tools' = Append(tools, [tool |-> "xcpretty", outcome |-> o])
           /\ IF ~o.spawned
              THEN RunTestsLeaves(Err(Error("CommandExecutionError::XCPretty")))
              ELSE IF ~success(o)
              THEN RunTestsLeaves(Err(NonZeroExit(
                       IF o.code = None THEN NA ELSE to_string(o.code[1]))))
              ELSE RunTestsLeaves(Ok(<<>>))
    /\ UNCHANGED <<cli, home, exit_status, calls, squads_file>>
    /\ UNCHANGED <<pipeVars, runVars>>

\* main's match on what run_tests returned: Ok goes on to process_xcresult
\* with xcresult_path()?, an error is printed.
RunTestsReturned ==
    /\ mpc = "run_tests_returned"
    /\ IF result.ok
       THEN IF xcresult_path.ok
            THEN /\ cli' = [cli EXCEPT !.xcresult_file = Some(xcresult_path.value)]
                 /\ mpc' = "parse_xcresult_to_dataframe"
                 /\ calls' = [calls EXCEPT !["process_xcresult"] = @ + 1]
                 /\ UNCHANGED <<result, exit_status, failures>>
            ELSE /\ result' = xcresult_path
                 /\ mpc' = "exited"
                 /\ exit_status' = Some(1)
                 /\ failures' = Append(failures, Failure("xcresult_path", xcresult_path))
                 /\ UNCHANGED <<cli, calls>>
       ELSE /\ mpc' = "return"
            /\ UNCHANGED <<cli, result, exit_status, failures, calls>>
    /\ UNCHANGED <<home, tools, squads_file>>
    /\ UNCHANGED <<pipeVars, runVars>>

\* process_xcresult: parse_xcresult_to_dataframe(xcresult_file)?
ParseXcresultToDataframe ==
    /\ mpc = "parse_xcresult_to_dataframe"
    /\ calls' = [calls EXCEPT !["parse_xcresult_to_dataframe"] = @ + 1]
    /\ \E xcrun \in ToolOutcomes, written \in BOOLEAN, opened \in BOOLEAN,
          json_ok \in BOOLEAN :
           LET res == parse_xcresult_to_dataframe(cli.xcresult_file[1], xcrun.spawned,
                                                  written, opened, json_ok)
               reached_xcrun == home_path.ok
                                /\ unwrap_or_default(try_exists(cli.xcresult_file[1]))
               raw_report == [home |-> TRUE, dir |-> <<>>, name |-> <<"raw_report", "json">>]
           IN  /\ tools' = IF reached_xcrun
                           THEN Append(tools, [tool |-> "xcrun", outcome |-> xcrun])
                           ELSE tools
               /\ fs' = IF reached_xcrun /\ xcrun.spawned /\ written
                        THEN (raw_report :> [writer |-> 1, what |-> "raw_report"]) @@ fs
                        ELSE fs
               /\ IF res.ok
                  THEN mpc' = "load_squads_file" /\ UNCHANGED <<result, failures>>
                  ELSE /\ mpc' = "return"
                       /\ result' = res
                       /\ failures' = Append(failures,
                                             Failure("parse_xcresult_to_dataframe", res))
    /\ UNCHANGED <<cli, home, exit_status, squads_file>>
    /\ UNCHANGED <<pipeVars, now, dirs, searchable, runs>>

\* process_xcresult: load_squads_file(input_file)?, then Ok(())
LoadSquadsFile ==
    /\ mpc = "load_squads_file"
    /\ calls' = [calls EXCEPT !["load_squads_file"] = @ + 1]
    /\ \E csv \in SquadsFiles :
           LET res == load_squads_file(csv)
           IN  /\ mpc' = "return"
               /\ squads_file' = Some(csv)
               /\ result' = IF res.ok THEN Ok(<<>>) ELSE res
               /\ failures' = IF res.ok THEN failures
                              ELSE Append(failures, Failure("load_squads_file", res))
    /\ UNCHANGED <<cli, home, exit_status, tools>>
    /\ UNCHANGED <<pipeVars, runVars>>

\* main prints what it holds and returns Ok(()): status 0.
MainReturns ==
    /\ mpc = "return"
    /\ mpc' = "exited"
    /\ exit_status' = Some(0)
    /\ UNCHANGED <<cli, home, result, failures, calls, tools, squads_file>>
    /\ UNCHANGED <<pipeVars, runVars>>

NextMain ==
    \/ CliParse
    \/ SetupHomeDir
    \/ Dispatch
    \/ RunTuist
    \/ RunPod
    \/ RunXcodebuild
    \/ RunXcpretty
    \/ RunTestsReturned
    \/ ParseXcresultToDataframe
    \/ LoadSquadsFile
    \/ MainReturns

SpecMain == InitMain /\ [][NextMain]_vars

-----------------------------------------------------------------------------
(* Properties of the driver (SpecMain) *)

\* The stages of a run: the test/coverage driver, the parsing of the
\* coverage export, the loading of the ownership map.
RunStages == {"run_tests", "parse_xcresult_to_dataframe", "load_squads_file"}

\* C10: when a stage of the run has failed, the process ends with a non-zero
\* status, main returning that stage's error, and no stage was started twice.
C10_FailureEndsNonZero ==
    (mpc = "exited" /\ \E k \in 1..Len(failures) : failures[k].stage \in RunStages) =>
        /\ exit_status # Some(0)
        /\ ~result.ok
        /\ result.err = failures[Len(failures)].err
        /\ \A st \in Stages : calls[st] <= 1


\* The columns the ownership map must have, in the order they are looked for.
RequiredColumns == <<"Squad", "Filepath">>

\* The required columns that the header `fields` lacks, by position.
MissingOf(fields) ==
    { k \in 1..Len(RequiredColumns) :
        \A f \in 1..Len(fields) : fields[f] # RequiredColumns[k] }

\* C11: a squads file that was read loads exactly when its header has Squad
\* and Filepath, whatever other columns it has or lacks; otherwise loading
\* fails with ColumnMissing naming the first of Squad, Filepath that is
\* missing, and that is the only failure of the load.
C11_RequiredColumns ==
    (squads_file # None /\ squads_file[1].opens /\ squads_file[1].parses) =>
        LET missing == MissingOf(squads_file[1].fields)
            failed == { k \in 1..Len(failures) : failures[k].stage = "load_squads_file" }
        IN  IF missing = {}
            THEN result.ok /\ failed = {}
            ELSE /\ result = Err(ColumnMissing(RequiredColumns[Least(missing)]))
                 /\ Cardinality(failed) = 1


\* The tools run_tests invokes.
DriverTools == {"tuist", "pod", "xcodebuild", "xcpretty"}

\* run_tests was started and has returned.
RunTestsHasReturned ==
    calls["run_tests"] > 0 /\ mpc \notin {"tuist", "pod", "xcodebuild", "xcpretty"}

\* The errors run_tests returned.
RunTestsErrors ==
    { failures[k].err : k \in { j \in 1..Len(failures) : failures[j].stage = "run_tests" } }

\* C13: when a tool that run_tests invoked has ended with a non-zero exit
\* status, run_tests returns CommandExecution NonZeroExit with that exit
\* code and process_xcresult is not started; a `run` starts process_xcresult
\* only after run_tests returned Ok.
C13_NonZeroExitFailsRunTests ==
    (mpc # "cli" /\ calls["run_tests"] > 0) =>
        /\ RunTestsHasReturned =>
               \A k \in 1..Len(tools) :
                   (/\ tools[k].tool \in DriverTools
                    /\ tools[k].outcome.code # None
                    /\ tools[k].outcome.code # Some(0)) =>
                       /\ NonZeroExit(to_string(tools[k].outcome.code[1])) \in RunTestsErrors
                       /\ calls["process_xcresult"] = 0
        /\ calls["process_xcresult"] > 0 => (RunTestsHasReturned /\ RunTestsErrors = {})

\* The arguments of a command that go through parse_file, in the order they
\* are parsed, each with the extension required of it.
FileArgs(c) ==
    IF c.command = "Run" THEN << <<c.input_file[1], "csv">> >>
    ELSE IF c.command = "Generate"
         THEN << <<c.input_file[1], "csv">>, <<c.xcresult_file[1], "xcresult">> >>
         ELSE <<>>

\* What validation gives for one argument, when `exists` tells whether the
\* path exists and unnamed(e) whether an extension e is reported as "N/A".
Validated(arg, ext, exists, unnamed(_)) ==
    IF ~exists THEN Err(Error("FilePathError::NotFound"))
    ELSE IF extension(arg) # Some(ext)
         THEN Err(InvalidType(IF extension(arg) = None \/ unnamed(extension(arg)[1])
                              THEN "N/A" ELSE extension(arg)[1]))
         ELSE Ok(arg)

\* Cli::parse ends in this step as the validation of each argument says:
\* the first argument that is refused ends the process with its error, and
\* with none refused main goes on; no file is created or changed.
ParsedAs(exists(_), unnamed(_)) ==
    (mpc = "cli" /\ mpc' # "cli") =>
        LET args == FileArgs(cli')
            res == [k \in 1..Len(args) |->
                       Validated(args[k][1], args[k][2], exists(args[k][1]), unnamed)]
            refused == { k \in 1..Len(args) : ~res[k].ok }
        IN  /\ fs' = fs
            /\ IF refused = {}
               THEN mpc' = "setup_home_dir" /\ failures' = failures
               ELSE /\ mpc' = "exited"
                    /\ failures' = Append(failures, Failure("cli", res[Least(refused)]))

\* The path is in the file system.
Exists(path) == path \in DOMAIN fs

\* The path is in the file system and its directory can be searched.
Found(path) == searchable /\ path \in DOMAIN fs

NoExtension(e) == FALSE

NotUnicodeExtension(e) == e \in NotUnicode

-----------------------------------------------------------------------------
(* A `generate` invocation from its arguments to the summary: the squads
   file goes through parse_input_file, its rows become the ownership
   sequence, and the pipeline runs on the parser's records. *)

\* The coverage bundle, which is there and has the right extension.
TheXcresult == [home |-> FALSE, dir |-> <<>>, name |-> <<"result", "xcresult">>]

InitGenerate ==
    /\ stage = "args"
    /\ files \in SeqsUpTo(TargetFiles, MaxFiles)
    /\ squads = <<>>
    /\ full_report = <<>>
    /\ report = <<>>
    /\ targets = <<>>
    /\ cli \in { c \in CommandLines :
                   c.command = "Generate" /\ c.xcresult_file = Some(TheXcresult) }
    /\ fs \in { [p \in S \cup {TheXcresult} |-> Foreign] : S \in SUBSET CsvArgs }
    /\ searchable \in BOOLEAN
    /\ result = Ok(<<>>)
    /\ now = 0 /\ dirs = {} /\ runs = <<>>
    /\ mpc = "idle" /\ home = "ok"
    /\ exit_status = None /\ failures = <<>> /\ calls = <<>> /\ tools = <<>>
    /\ squads_file = None

\* Cli::parse: the value parsers of --input-file and --xcresult-file.
ParseGenerateArgs ==
    /\ stage = "args"
    /\ result' = parse_cli(cli)
    /\ stage' = IF parse_cli(cli).ok THEN "load" ELSE "failed"
    /\ UNCHANGED <<files, squads, full_report, report, targets>>
    /\ UNCHANGED <<runVars, mpc, cli, home, exit_status, failures, calls, tools,
                   squads_file>>

\* The squads file is read: one SquadData per data row, in row order; a
\* file with a header row only gives no SquadData.
LoadSquads ==
    /\ stage = "load"
    /\ \E rows \in SeqsUpTo(SquadDatas, MaxSquads) : squads' = rows
    /\ stage' = "parsed"
    /\ UNCHANGED <<files, full_report, report, targets>>
    /\ UNCHANGED <<runVars, mainVars>>

NextGenerate ==
    \/ ParseGenerateArgs
    \/ LoadSquads
    \/ MatchSquads
    \/ ProcessFullReport
    \/ ProcessReport

SpecGenerate == InitGenerate /\ [][NextGenerate]_vars

-----------------------------------------------------------------------------
(* Properties of a generate invocation (SpecGenerate) *)

\* The squads file is not at the path given for it.
MapAbsent == cli.input_file[1] \notin DOMAIN fs

\* The squads file was read and had no data row.
MapEmpty == stage \in {"parsed", "matched", "full_report", "report"} /\ squads = <<>>

\* With no owner anywhere: every full-report row has Squad "N/A", and the
\* summary is the one row of "N/A" counting every file.
AllUnowned ==
    /\ stage \in {"full_report", "report"} =>
           /\ Len(full_report) = Len(files)
           /\ \A i \in 1..Len(full_report) : full_report[i]["Squad"] = Some(NA)
    /\ stage = "report" =>
           /\ Len(report) = 1
           /\ report[1]["Squad"] = Some(NA)
           /\ report[1]["Count"] = Len(files)

-----------------------------------------------------------------------------
(* From the coverage export to the full report: get_all_files flattens the
   targets, the files are matched, process_full_report builds the report. *)

\* The files of the export: "/a/b/x" with 2 of 3 lines and with 1 of 32,
\* "/a/y" with 1 of 32.
ExportFiles ==
    { f \in TargetFiles :
        \/ f.path = <<47, 97, 47, 98, 47, 120>> /\ f.executable_lines > 0
        \/ f.path = <<47, 97, 47, 121>> /\ f.executable_lines = 32 }

\* The squads of the map: "N/A" and "A" owning "b/", "T" owning "/a/".
ExportSquads ==
    { q \in SquadDatas :
        \/ q.squad_name \in {NA, <<65>>} /\ q.file_path = <<98, 47>>
        \/ q.squad_name = <<84>> /\ q.file_path = <<47, 97, 47>> }

\* The ways to cut n files into k consecutive targets (a target may be empty).
Cuts(n, k) ==
    { c \in [0..k -> 0..n] :
        c[0] = 0 /\ c[k] = n /\ \A t \in 1..k : c[t - 1] <= c[t] }

\* The exports: at most MaxTargets targets holding at most MaxFiles files.
Exports ==
    UNION { UNION { { [t \in 1..k |-> [files |-> SubSeq(fl, c[t - 1] + 1, c[t])]] :
                        c \in Cuts(Len(fl), k) } :
                    k \in 0..MaxTargets } :
            fl \in SeqsUpTo(ExportFiles, MaxFiles) }

InitFullReport ==
    /\ stage = "export"
    /\ targets \in Exports
    /\ files = <<>>
    /\ squads \in SeqsUpTo(ExportSquads, MaxSquads)
    /\ full_report = <<>>
    /\ report = <<>>
    /\ now = 0 /\ fs = <<>> /\ dirs = {} /\ searchable = TRUE /\ runs = <<>>
    /\ mpc = "idle" /\ cli = <<>> /\ home = "ok" /\ result = <<>>
    /\ exit_status = None /\ failures = <<>> /\ calls = <<>> /\ tools = <<>>
    /\ squads_file = None

\* report.get_all_files(): the parser's record sequence.
GetAllFiles ==
    /\ stage = "export"
    /\ files' = get_all_files(targets)
    /\ stage' = "parsed"
    /\ UNCHANGED <<squads, full_report, report, targets>>
    /\ UNCHANGED <<runVars, mainVars>>

NextFullReport == GetAllFiles \/ MatchSquads \/ ProcessFullReport

SpecFullReport == InitFullReport /\ [][NextFullReport]_vars

-----------------------------------------------------------------------------
(* Properties of the way to the full report (SpecFullReport) *)

\* The number of files in the targets before target t.
RECURSIVE FilesBefore(_)
FilesBefore(t) ==
    IF t <= 1 THEN 0 ELSE FilesBefore(t - 1) + Len(targets[t - 1].files)

\* The k-th record of the export, counting target by target and, within a
\* target, file by file.
RecordAt(k) ==
    LET t == CHOOSE u \in 1..Len(targets) :
                 FilesBefore(u) < k /\ k <= FilesBefore(u) + Len(targets[u].files)
    IN  targets[t].files[k - FilesBefore(t)]

\* Row `row` of the full report shows the record `file`.
Shows(row, file) ==
    /\ row["Filepath"] = file.path
    /\ row["Covered Lines"] = file.covered_lines
    /\ row["Executable Lines"] = file.executable_lines
    /\ row["Line Coverage"] = file.line_coverage

\* The ways to pair n rows with n records, one to one.
Pairings(n) == { p \in [1..n -> 1..n] : \A a, b \in 1..n : a # b => p[a] # p[b] }

=============================================================================
